---- MODULE Spec2Model ----
(***************************************************************************)
(* A model of the two laboratory pipelines of the repository:              *)
(*   lab_7_llm/main.py  (classification task, premise/hypothesis/label)    *)
(*   lab_8_llm/main.py  (generation task, question/best_answer)            *)
(* Tables are pandas DataFrames: a list of column names, an index and a    *)
(* list of rows, each row a list of cells aligned with the columns.        *)
(* Strings are sequences of one-character strings.                         *)
(***************************************************************************)
EXTENDS Integers, Sequences, FiniteSets, TLC

VARIABLES
    lab,          \* which main.py is running: "lab7" or "lab8"
    raw_data,     \* RawDataPreprocessor._raw_data
    data,         \* RawDataPreprocessor._data, with the outcome of transform
    report,       \* the outcome of the last RawDataPreprocessor.analyze call
    first_data,   \* the canonical table of the previous transform, once re-imported
    rounds,       \* how many times a transform result was used as a new raw table
    model_bound,  \* LLMPipeline._model is not None
    dataset,      \* TaskDataset._data: the rows of the preprocessed frame
    batch_size,   \* LLMPipeline._batch_size
    pc,           \* position of infer_dataset: "idle", "loop", "returned", "raised"
    cursor,       \* how many dataset records the DataLoader has handed out
    batches,      \* the batches the DataLoader has yielded so far, in order
    predictions,  \* the local list `predictions` of infer_dataset
    generated,    \* per dataset position, the text the model decoded for it
    frame,        \* the DataFrame infer_dataset returned
    failures,     \* how many tokenizer/generation calls of infer_dataset raised
    last_call,    \* outcome of the last analyze_model / infer_sample call
    metrics,      \* TaskEvaluator._metrics
    epc,          \* position of TaskEvaluator.run: "idle", "loop", "returned", "raised"
    mpos,         \* how many requested metrics run has processed
    native,       \* per metric, the report its last metric.compute call returned
    scores,       \* the dict `scores` of TaskEvaluator.run
    query,        \* service: Query.question of the request posted to /infer
    spc,          \* service: position of the infer handler: "idle", "done"
    infer_calls,  \* service: the samples pipeline.infer_sample was called with, in order
    response      \* service: the dict the infer handler returned

pre_vars  == <<raw_data, data, report, first_data, rounds>>
inf_vars  == <<model_bound, dataset, batch_size, pc, cursor, batches, predictions,
               generated, frame, failures, last_call>>
eval_vars == <<metrics, epc, mpos, native, scores>>
svc_vars  == <<query, spc, infer_calls, response>>
vars      == <<lab, pre_vars, inf_vars, eval_vars, svc_vars>>

Labs == {"lab7", "lab8"}

----------------------------------------------------------------------------
(* Bounds *)

MaxRows == 5
MaxRounds == 1
MaxSamples == 5
MaxBatch == 3
MaxMetrics == 3
MaxQuery == 4

SeqsUpTo(S, n) == UNION {[1..k -> S] : k \in 0..n}

----------------------------------------------------------------------------
(* Cells and strings *)

NL == "\n"

Str(s) == [kind |-> "str", text |-> s, num |-> 0]
Num(n) == [kind |-> "int", text |-> <<>>, num |-> n]
NaN    == [kind |-> "nan", text |-> <<>>, num |-> 0]

IsNa(c) == c.kind = "nan"

\* Python len(x) on a cell: defined on str, TypeError on float nan and on int
HasLen(c) == c.kind = "str"
PyLen(c) == Len(c.text)

Range(s) == {s[i] : i \in 1..Len(s)}

Min(S) == CHOOSE m \in S : \A n \in S : m <= n
Max(S) == CHOOSE m \in S : \A n \in S : m >= n

----------------------------------------------------------------------------
(* pandas DataFrame operations *)

Table(cols, rows) == [columns |-> cols, index |-> [i \in 1..Len(rows) |-> i - 1], rows |-> rows]

NoTable == [columns |-> <<>>, index |-> <<>>, rows |-> <<>>]

ColIdx(t, name) == CHOOSE i \in 1..Len(t.columns) : t.columns[i] = name

HasCol(t, name) == name \in Range(t.columns)

\* df[name]: the cells of one column, in row order
Column(t, name) == [r \in 1..Len(t.rows) |-> t.rows[r][ColIdx(t, name)]]

\* the sub-table of the row positions pos (an increasing sequence), labels kept
TakeRows(t, pos) ==
    [columns |-> t.columns,
     index   |-> [k \in 1..Len(pos) |-> t.index[pos[k]]],
     rows    |-> [k \in 1..Len(pos) |-> t.rows[pos[k]]]]

Positions(n) == [i \in 1..n |-> i]

\* Series.duplicated() / DataFrame.duplicated(): equal to an earlier entry (keep='first')
Duplicated(s, i) == \E j \in 1..(i - 1) : s[j] = s[i]

\* DataFrame.rename(columns={old: new}); a missing key is ignored (errors='ignore')
Rename(t, old, new) ==
    [t EXCEPT !.columns = [i \in 1..Len(t.columns) |->
                              IF t.columns[i] = old THEN new ELSE t.columns[i]]]

\* DataFrame.drop_duplicates(): rows equal to an earlier row in every column go
DropDuplicates(t) ==
    TakeRows(t, SelectSeq(Positions(Len(t.rows)), LAMBDA i : ~Duplicated(t.rows, i)))

\* DataFrame.replace('', np.nan)
ReplaceEmpty(t) ==
    [t EXCEPT !.rows = [r \in 1..Len(t.rows) |->
                          [c \in 1..Len(t.rows[r]) |->
                              IF t.rows[r][c] = Str(<<>>) THEN NaN ELSE t.rows[r][c]]]]

RowHasNa(row) == \E c \in 1..Len(row) : IsNa(row[c])

\* DataFrame.dropna(): rows with at least one NaN cell go
DropNa(t) ==
    TakeRows(t, SelectSeq(Positions(Len(t.rows)), LAMBDA i : ~RowHasNa(t.rows[i])))

\* DataFrame.reset_index(drop=True)
ResetIndex(t) == [t EXCEPT !.index = [i \in 1..Len(t.rows) |-> i - 1]]

\* DataFrame.drop(columns=names), for names that are all present
DropColumns(t, names) ==
    LET keep == SelectSeq(Positions(Len(t.columns)), LAMBDA i : t.columns[i] \notin names)
    IN  [columns |-> [k \in 1..Len(keep) |-> t.columns[keep[k]]],
         index   |-> t.index,
         rows    |-> [r \in 1..Len(t.rows) |->
                         [k \in 1..Len(keep) |-> t.rows[r][keep[k]]]]]

----------------------------------------------------------------------------
(* RawDataImporter.obtain: the raw tables of the two tasks *)

RawColumns(l) ==
    IF l = "lab7"
    THEN <<"premise", "hypothesis", "label">>
    ELSE <<"type", "category", "question", "best_answer",
           "correct_answers", "incorrect_answers", "source">>

A  == <<"a">>
B  == <<"b">>
AB == <<"a", "b">>

Row7(premise, hypothesis, label) == <<premise, hypothesis, label>>

Row8(question, best_answer) ==
    <<Str(<<"t">>), Str(<<"c">>), question, best_answer,
      Str(<<"r">>), Str(<<"w">>), Str(<<"s">>)>>

\* the rows a downloaded table is built from: clean rows, rows that differ in one
\* field only, a row with an empty text field and a row with a missing text field
RowPool(l) ==
    IF l = "lab7"
    THEN {Row7(Str(A), Str(B), Num(0)),
          Row7(Str(A), Str(B), Num(1)),
          Row7(Str(<<>>), Str(B), Num(0)),
          Row7(NaN, Str(B), Num(0)),
          Row7(Str(AB), Str(A), Num(1))}
    ELSE {Row8(Str(A), Str(B)),
          Row8(Str(A), Str(AB)),
          Row8(Str(<<>>), Str(B)),
          Row8(NaN, Str(B)),
          Row8(Str(AB), Str(A))}

RawTables(l) == {Table(RawColumns(l), rows) : rows \in SeqsUpTo(RowPool(l), MaxRows)}

----------------------------------------------------------------------------
(* RawDataPreprocessor.analyze *)

ReportKeys == {"dataset_number_of_samples", "dataset_columns", "dataset_duplicates",
               "dataset_empty_rows", "dataset_sample_min_len", "dataset_sample_max_len"}

Val(n) == [nan |-> FALSE, n |-> n]
NanVal == [nan |-> TRUE, n |-> 0]

Info(samples, columns, duplicates, empty, minlen, maxlen) ==
    [k \in ReportKeys |->
        CASE k = "dataset_number_of_samples" -> samples
          [] k = "dataset_columns"           -> columns
          [] k = "dataset_duplicates"        -> duplicates
          [] k = "dataset_empty_rows"        -> empty
          [] k = "dataset_sample_min_len"    -> minlen
          [] k = "dataset_sample_max_len"    -> maxlen]

NoInfo == [k \in {} |-> NanVal]

Returned(info) == [raised |-> "none", info |-> info]
Raised(exc)    == [raised |-> exc, info |-> NoInfo]
NotCalled      == [raised |-> "unset", info |-> NoInfo]

\* lab_7: _count_samples, _count_columns, _count_duplicates, _count_empty
CountSamples(t) == Len(t.rows)
CountColumns(t) == Len(t.columns)
CountDuplicates(t) == Cardinality({i \in 1..Len(t.rows) : Duplicated(t.rows, i)})
CountEmpty(t) == Len(t.rows) - Len(DropNa(ReplaceEmpty(t)).rows)

\* min(series, key=len) / max(series, key=len): ValueError on an empty series,
\* TypeError when len() is applied to a cell that is not a string
LenError(t) ==
    IF Len(t.rows) = 0 THEN "ValueError"
    ELSE IF \E c \in Range(Column(t, "premise")) \cup Range(Column(t, "hypothesis")) :
               ~HasLen(c)
         THEN "TypeError"
         ELSE "none"

TextLens(t) == {PyLen(c) : c \in Range(Column(t, "premise")) \cup Range(Column(t, "hypothesis"))}

CountMin(t) == Min(TextLens(t))
CountMax(t) == Max(TextLens(t))

Analyze7(t) ==
    IF LenError(t) # "none"
    THEN {Raised(LenError(t))}
    ELSE {Returned(Info(Val(CountSamples(t)), Val(CountColumns(t)),
                        Val(CountDuplicates(t)), Val(CountEmpty(t)),
                        Val(CountMin(t)), Val(CountMax(t))))}

\* lab_8: lengths = raw.dropna()['question'].apply(len)
Lengths(t) == {PyLen(c) : c \in Range(Column(DropNa(t), "question"))}

QuestionDuplicates(t) ==
    Cardinality({i \in 1..Len(t.rows) : Duplicated(Column(t, "question"), i)})

NaRows(t) == Cardinality({i \in 1..Len(t.rows) : RowHasNa(t.rows[i])})

\* With no row left after dropna, lengths.min() is a NaN whose type (float or
\* numpy scalar) decides whether the second .min() raises AttributeError.
Analyze8(t) ==
    IF Lengths(t) = {}
    THEN {Raised("AttributeError"),
          Returned(Info(Val(Len(t.rows)), Val(Len(t.columns)),
                        Val(QuestionDuplicates(t)), Val(NaRows(t)), NanVal, NanVal))}
    ELSE {Returned(Info(Val(Len(t.rows)), Val(Len(t.columns)),
                        Val(QuestionDuplicates(t)), Val(NaRows(t)),
                        Val(Min(Lengths(t))), Val(Max(Lengths(t)))))}

AnalyzeOutcomes(l, t) == IF l = "lab7" THEN Analyze7(t) ELSE Analyze8(t)

----------------------------------------------------------------------------
(* RawDataPreprocessor.transform *)

Transformed(t)  == [raised |-> "none", table |-> t]
TransformRaised(exc) == [raised |-> exc, table |-> NoTable]
NotTransformed  == [raised |-> "unset", table |-> NoTable]

Transform7(t) ==
    Transformed(ResetIndex(DropNa(ReplaceEmpty(DropDuplicates(Rename(t, "label", "target"))))))

DroppedColumns == {"type", "category", "correct_answers", "incorrect_answers", "source"}

\* DataFrame.drop raises KeyError when a label to drop is not a column
Transform8(t) ==
    IF \E c \in DroppedColumns : ~HasCol(t, c)
    THEN TransformRaised("KeyError")
    ELSE Transformed(Rename(DropColumns(t, DroppedColumns), "best_answer", "target"))

TransformOutcome(l, t) == IF l = "lab7" THEN Transform7(t) ELSE Transform8(t)

----------------------------------------------------------------------------
(* Values of the variables of a component that is not running *)

NoFrame == [built |-> FALSE, target |-> <<>>, predictions |-> <<>>]
NoCall  == [op |-> "none", raised |-> "none", value |-> "unset", text |-> <<>>,
            invoked |-> 0, sample |-> <<>>, decoded |-> <<>>]
NoDict  == [k \in {} |-> 0]

PreIdle ==
    /\ raw_data = NoTable
    /\ data = NotTransformed
    /\ report = NotCalled
    /\ first_data = NoTable
    /\ rounds = 0

InfIdle ==
    /\ model_bound = TRUE
    /\ dataset = <<>>
    /\ batch_size = 1
    /\ pc = "idle"
    /\ cursor = 0
    /\ batches = <<>>
    /\ predictions = <<>>
    /\ generated = <<>>
    /\ frame = NoFrame
    /\ failures = 0
    /\ last_call = NoCall

EvalIdle ==
    /\ metrics = <<>>
    /\ epc = "idle"
    /\ mpos = 0
    /\ native = NoDict
    /\ scores = NoDict

SvcIdle ==
    /\ query = <<>>
    /\ spc = "idle"
    /\ infer_calls = <<>>
    /\ response = NoDict

----------------------------------------------------------------------------
(* The preprocessing stage: analyze, transform, and a transform result used *)
(* as the raw table of a new RawDataPreprocessor                            *)

InitPre ==
    /\ lab \in Labs
    /\ raw_data \in RawTables(lab)
    /\ data = NotTransformed
    /\ report = NotCalled
    /\ first_data = NoTable
    /\ rounds = 0
    /\ InfIdle
    /\ EvalIdle
    /\ SvcIdle

Analyze ==
    /\ report.raised = "unset"
    /\ report' \in AnalyzeOutcomes(lab, raw_data)
    /\ UNCHANGED <<lab, svc_vars, raw_data, data, first_data, rounds, inf_vars, eval_vars>>

Transform ==
    /\ data.raised = "unset"
    /\ data' = TransformOutcome(lab, raw_data)
    /\ UNCHANGED <<lab, svc_vars, raw_data, report, first_data, rounds, inf_vars, eval_vars>>

\* AbstractRawDataPreprocessor.__init__(raw_data) on the table transform produced
Reimport ==
    /\ data.raised = "none"
    /\ rounds < MaxRounds
    /\ raw_data' = data.table
    /\ first_data' = data.table
    /\ data' = NotTransformed
    /\ report' = NotCalled
    /\ rounds' = rounds + 1
    /\ UNCHANGED <<lab, svc_vars, inf_vars, eval_vars>>

NextPre == Analyze \/ Transform \/ Reimport

SpecPre == InitPre /\ [][NextPre]_vars

----------------------------------------------------------------------------
(* Properties of the preprocessing stage *)

\* a cell that is missing, an empty string counting as missing
Missing(c) == IsNa(c) \/ c = Str(<<>>)

MalformedRows(t) == {i \in 1..Len(t.rows) : \E c \in 1..Len(t.rows[i]) : Missing(t.rows[i][c])}

ExactDuplicateRows(t) == {i \in 1..Len(t.rows) : \E j \in 1..(i - 1) : t.rows[j] = t.rows[i]}

\* C1: transform is idempotent: once a transform result has been used as the raw
\* table, transforming it completes without error and yields the same table again.
C1_TransformIdempotent ==
    (rounds >= 1 /\ data.raised # "unset")
        => (data.raised = "none" /\ data.table = first_data)

\* C2: the canonical table transform produces has no row with an empty or missing
\* value in any field and no two rows that are equal in every field.
C2_CanonicalTableClean ==
    data.raised = "none"
        => /\ MalformedRows(data.table) = {}
           /\ ExactDuplicateRows(data.table) = {}

\* C5: analyze reports the row count, the number of rows exactly duplicating an
\* earlier row and the number of rows with a missing or empty field; a 5-row table
\* with one exact duplicate and one row with an empty text field is reported as
\* 5, 1, 1 and transforms to 3 rows.
C5_AnalyzeCounts ==
    /\ (rounds = 0 /\ report.raised = "none")
          => /\ report.info["dataset_number_of_samples"] = Val(Len(raw_data.rows))
             /\ report.info["dataset_duplicates"] = Val(Cardinality(ExactDuplicateRows(raw_data)))
             /\ report.info["dataset_empty_rows"] = Val(Cardinality(MalformedRows(raw_data)))
    /\ (/\ rounds = 0
        /\ data.raised # "unset"
        /\ Len(raw_data.rows) = 5
        /\ Cardinality(ExactDuplicateRows(raw_data)) = 1
        /\ Cardinality(MalformedRows(raw_data)) = 1
        /\ ExactDuplicateRows(raw_data) \cap MalformedRows(raw_data) = {})
          => (data.raised = "none" /\ Len(data.table.rows) = 3)

\* C10: on a raw table with malformed rows analyze does not raise: it returns a
\* report with the six fixed keys that counts those rows in dataset_empty_rows.
C10_AnalyzeNeverRaises ==
    (rounds = 0 /\ report.raised # "unset" /\ MalformedRows(raw_data) # {})
        => /\ report.raised = "none"
           /\ DOMAIN report.info = ReportKeys
           /\ report.info["dataset_empty_rows"] = Val(Cardinality(MalformedRows(raw_data)))

\* What lab_7 alone satisfies of C1, C2 and C5.
Lab7TransformIdempotent == lab = "lab7" => C1_TransformIdempotent
Lab7CanonicalTableClean == lab = "lab7" => C2_CanonicalTableClean
Lab7AnalyzeCounts == lab = "lab7" => C5_AnalyzeCounts
\* What lab_8 alone satisfies of C10: it never raises on a table with a clean row.
Lab8AnalyzeReturns ==
    (lab = "lab8" /\ rounds = 0 /\ report.raised # "unset"
        /\ MalformedRows(raw_data) # 1..Len(raw_data.rows))
        => (report.raised = "none" /\ DOMAIN report.info = ReportKeys)

----------------------------------------------------------------------------
(* TaskDataset and the DataLoader of infer_dataset (lab_8) *)

Z == <<"z">>

Item(question, target) == [question |-> question, target |-> target]

ItemPool == {Item(A, B), Item(AB, A)}

\* TaskDataset.__len__
DatasetLen(ds) == Len(ds)

\* TaskDataset.__getitem__(index): a 1-tuple holding the question, index from 0
GetItem(ds, index) == <<ds[index + 1].question>>

\* as NextBatch, with drop_last=True: a short last batch is not yielded
NextBatchDropLast(done, n, size) ==
    [j \in 1..(IF n - done >= size THEN size ELSE 0) |-> done + j - 1]

\* the indices of the next batch of DataLoader(dataset, batch_size=size) once
\* `done` records were handed out: sequential order, the short last batch kept
NextBatch(done, n, size) ==
    [j \in 1..Min({size, n - done}) |-> done + j - 1]

Fetch(ds, idxs) == [j \in 1..Len(idxs) |-> GetItem(ds, idxs[j])]

\* default_collate on a list of tuples of strings: one tuple per field
Collate(items) ==
    [f \in 1..Len(items[1]) |-> [k \in 1..Len(items) |-> items[k][f]]]

----------------------------------------------------------------------------
(* LLMPipeline._infer_batch (lab_8) *)

StartsWith(text, prefix) ==
    /\ Len(text) >= Len(prefix)
    /\ SubSeq(text, 1, Len(prefix)) = prefix

\* as RemovePrefix, cutting len(prefix) characters whether or not they match
RemovePrefixSlice(text, prefix) ==
    SubSeq(text, Min({Len(prefix), Len(text)}) + 1, Len(text))

\* str.removeprefix
RemovePrefix(text, prefix) ==
    IF StartsWith(text, prefix)
    THEN SubSeq(text, Len(prefix) + 1, Len(text))
    ELSE text

\* what tokenizer + generate + batch_decode can give back for one prompt: the
\* prompt echoed with the separator and a continuation, the prompt echoed without
\* the separator, or no echo at all
GenOutcomes(prompt) == {prompt \o <<NL>> \o Z, prompt \o Z, Z}

Prompts == {i.question : i \in ItemPool}

Decodings(inputs) ==
    {d \in [1..Len(inputs) -> UNION {GenOutcomes(q) : q \in Prompts}] :
        \A i \in 1..Len(inputs) : d[i] \in GenOutcomes(inputs[i])}

\* the list comprehension over enumerate(generated_texts); sample_batch[0] is
\* the tuple of prompts
InferBatch(sample_batch, generated_texts) ==
    [i \in 1..Len(generated_texts) |->
        RemovePrefix(generated_texts[i], sample_batch[1][i] \o <<NL>>)]

----------------------------------------------------------------------------
(* LLMPipeline.infer_dataset *)

\* as AfterFailure, the failing batch skipped and the loop going on
AfterFailureSkip == "loop"

\* an exception of _infer_batch is not caught in the loop: the call ends raised
AfterFailure == "raised"

\* as Extend, the batch's predictions put in front of the accumulated ones
ExtendFront(preds, batch_preds) == batch_preds \o preds

\* predictions.extend(...)
Extend(preds, batch_preds) == preds \o batch_preds

\* DataFrame({'target': ..., 'predictions': ...}) needs columns of one length
FrameFits(ds, preds) == Len(preds) = DatasetLen(ds)

BuildFrame(ds, preds) ==
    [built |-> TRUE, target |-> [i \in 1..Len(ds) |-> ds[i].target], predictions |-> preds]

InitInfer ==
    /\ lab \in Labs
    /\ model_bound \in BOOLEAN
    /\ dataset \in (IF lab = "lab8" THEN SeqsUpTo(ItemPool, MaxSamples) ELSE {<<>>})
    /\ batch_size \in 1..MaxBatch
    /\ pc = "idle"
    /\ cursor = 0
    /\ batches = <<>>
    /\ predictions = <<>>
    /\ generated = [i \in 1..Len(dataset) |-> <<>>]
    /\ frame = NoFrame
    /\ failures = 0
    /\ last_call = NoCall
    /\ PreIdle
    /\ EvalIdle
    /\ SvcIdle

\* predictions = []; dataloader = DataLoader(...)
StartInferDataset ==
    /\ lab = "lab8"
    /\ pc = "idle"
    /\ last_call = NoCall
    /\ pc' = "loop"
    /\ UNCHANGED <<lab, svc_vars, pre_vars, eval_vars, model_bound, dataset, batch_size, cursor,
                   batches, predictions, generated, frame, failures, last_call>>

\* one iteration of the loop, _infer_batch returning
InferBatchStep ==
    /\ pc = "loop"
    /\ model_bound
    /\ NextBatch(cursor, DatasetLen(dataset), batch_size) # <<>>
    /\ LET idxs == NextBatch(cursor, DatasetLen(dataset), batch_size)
           sample_batch == Collate(Fetch(dataset, idxs))
       IN  \E decoded \in Decodings(sample_batch[1]) :
              /\ predictions' = Extend(predictions, InferBatch(sample_batch, decoded))
              /\ generated' = [p \in 1..Len(dataset) |->
                                  IF \E j \in 1..Len(idxs) : idxs[j] + 1 = p
                                  THEN decoded[CHOOSE j \in 1..Len(idxs) : idxs[j] + 1 = p]
                                  ELSE generated[p]]
              /\ batches' = Append(batches, idxs)
              /\ cursor' = cursor + Len(idxs)
    /\ UNCHANGED <<lab, svc_vars, pre_vars, eval_vars, model_bound, dataset, batch_size, pc,
                   frame, failures, last_call>>

\* one iteration of the loop, the tokenizer or generate raising (always so when
\* no model is bound: None has no generate)
InferBatchFails ==
    /\ pc = "loop"
    /\ NextBatch(cursor, DatasetLen(dataset), batch_size) # <<>>
    /\ LET idxs == NextBatch(cursor, DatasetLen(dataset), batch_size)
       IN  /\ batches' = Append(batches, idxs)
           /\ cursor' = cursor + Len(idxs)
    /\ failures' = failures + 1
    /\ pc' = AfterFailure
    /\ UNCHANGED <<lab, svc_vars, pre_vars, eval_vars, model_bound, dataset, batch_size,
                   predictions, generated, frame, last_call>>

\* the DataLoader is exhausted: return DataFrame(...)
FinishInferDataset ==
    /\ pc = "loop"
    /\ NextBatch(cursor, DatasetLen(dataset), batch_size) = <<>>
    /\ IF FrameFits(dataset, predictions)
       THEN /\ frame' = BuildFrame(dataset, predictions)
            /\ pc' = "returned"
       ELSE /\ frame' = NoFrame
            /\ pc' = "raised"
    /\ UNCHANGED <<lab, svc_vars, pre_vars, eval_vars, model_bound, dataset, batch_size, cursor,
                   batches, predictions, generated, failures, last_call>>

\* lab_7 infer_dataset has no body: it returns None
InferDatasetStub ==
    /\ lab = "lab7"
    /\ pc = "idle"
    /\ last_call = NoCall
    /\ pc' = "returned"
    /\ UNCHANGED <<lab, svc_vars, pre_vars, eval_vars, model_bound, dataset, batch_size, cursor,
                   batches, predictions, generated, frame, failures, last_call>>

----------------------------------------------------------------------------
(* LLMPipeline.analyze_model and LLMPipeline.infer_sample *)

Call(op, raised, value, text, invoked, sample, decoded) ==
    [op |-> op, raised |-> raised, value |-> value, text |-> text,
     invoked |-> invoked, sample |-> sample, decoded |-> decoded]

\* lab_8 returns {} when self._model is None; lab_7 reads self._model.config at
\* once, an AttributeError on None. With a model, torchinfo's summary runs one
\* forward pass and the report dict is returned.
AnalyzeModelOutcome(l, bound) ==
    IF l = "lab8"
    THEN IF ~bound
         THEN Call("analyze_model", "none", "empty_dict", <<>>, 0, <<>>, <<>>)
         ELSE Call("analyze_model", "none", "report", <<>>, 1, <<>>, <<>>)
    ELSE IF ~bound
         THEN Call("analyze_model", "AttributeError", "unset", <<>>, 0, <<>>, <<>>)
         ELSE Call("analyze_model", "none", "report", <<>>, 1, <<>>, <<>>)

\* lab_8: None if self._model is None else self._infer_batch((sample, ), gen_params)[0];
\* lab_7: no body, returns None
InferSampleOutcomes(l, bound, sample) ==
    IF l = "lab8" /\ bound
    THEN {Call("infer_sample", "none", "str", InferBatch(<<sample>>, decoded)[1], 1,
               sample, decoded) : decoded \in Decodings(sample)}
         \cup {Call("infer_sample", "InferenceError", "unset", <<>>, 1, sample, <<>>)}
    ELSE {Call("infer_sample", "none", "None", <<>>, 0, sample, <<>>)}

Samples == {<<q>> : q \in Prompts} \cup {<<q1, q2>> : q1 \in Prompts, q2 \in Prompts}

\* Neither call writes a field of the pipeline, so the calls are modelled on an
\* idle pipeline, each overwriting the record of the last call.
AnalyzeModel ==
    /\ pc = "idle"
    /\ last_call' = AnalyzeModelOutcome(lab, model_bound)
    /\ UNCHANGED <<lab, svc_vars, pre_vars, eval_vars, model_bound, dataset, batch_size, pc, cursor,
                   batches, predictions, generated, frame, failures>>

InferSample ==
    /\ pc = "idle"
    /\ \E sample \in Samples :
          last_call' \in InferSampleOutcomes(lab, model_bound, sample)
    /\ UNCHANGED <<lab, svc_vars, pre_vars, eval_vars, model_bound, dataset, batch_size, pc, cursor,
                   batches, predictions, generated, frame, failures>>

NextInfer ==
    \/ StartInferDataset
    \/ InferBatchStep
    \/ InferBatchFails
    \/ FinishInferDataset
    \/ InferDatasetStub
    \/ AnalyzeModel
    \/ InferSample

SpecInfer == InitInfer /\ [][NextInfer]_vars

----------------------------------------------------------------------------
(* Properties of the inference stage *)

Ceil(n, d) == (n + d - 1) \div d

RECURSIVE Concat(_)
Concat(ss) == IF ss = <<>> THEN <<>> ELSE Head(ss) \o Concat(Tail(ss))

Sizes(ss) == [k \in 1..Len(ss) |-> Len(ss[k])]

\* the DataLoader of infer_dataset was iterated to its end
IterationDone == lab = "lab8" /\ pc \in {"returned", "raised"} /\ failures = 0

\* what is left of a decoded text once the echoed prompt and separator are cut
IsContinuation(out, text, prompt) ==
    IF StartsWith(text, prompt \o <<NL>>)
    THEN text = prompt \o <<NL>> \o out
    ELSE out = text

\* C3: the batches infer_dataset iterates are non-empty, hold at most batch_size
\* records and concatenate to the dataset positions in order without gap or
\* repeat; a full iteration yields ceil(N/B) of them (none iff N = 0), and sizes
\* 2,2,1 for N = 5, B = 2.
C3_BatchesPartitionDataset ==
    /\ \A k \in 1..Len(batches) : Len(batches[k]) >= 1 /\ Len(batches[k]) <= batch_size
    /\ Concat(batches) = [i \in 1..cursor |-> i - 1]
    /\ IterationDone =>
          /\ cursor = Len(dataset)
          /\ Len(batches) = Ceil(Len(dataset), batch_size)
          /\ (Len(batches) = 0 <=> Len(dataset) = 0)
          /\ (Len(dataset) = 5 /\ batch_size = 2) => Sizes(batches) = <<2, 2, 1>>

C3_Witness ==
    /\ IterationDone
    /\ Len(dataset) = 5
    /\ batch_size = 2
    /\ Sizes(batches) = <<2, 2, 1>>

\* C4: the table infer_dataset returns has one row per dataset record; row i holds
\* record i's target and the prediction made from the text decoded for record i.
C4_FrameAlignedWithDataset ==
    frame.built =>
        /\ Len(frame.target) = Len(dataset)
        /\ Len(frame.predictions) = Len(dataset)
        /\ \A i \in 1..Len(dataset) :
              /\ frame.target[i] = dataset[i].target
              /\ IsContinuation(frame.predictions[i], generated[i], dataset[i].question)

C4_Witness ==
    /\ frame.built
    /\ Len(dataset) >= 3
    /\ batch_size = 2
    /\ dataset[1].question # dataset[2].question
    /\ frame.predictions[1] # frame.predictions[2]
    /\ frame.predictions[2] # frame.predictions[3]

\* C6: with no model bound, analyze_model returns an empty report and infer_sample
\* returns None; neither raises nor invokes the tokenizer or the model.
C6_NoModelNoRaise ==
    ~model_bound =>
        /\ last_call.op = "analyze_model" =>
              (last_call.raised = "none" /\ last_call.value = "empty_dict"
                  /\ last_call.invoked = 0)
        /\ last_call.op = "infer_sample" =>
              (last_call.raised = "none" /\ last_call.value = "None"
                  /\ last_call.invoked = 0)

\* What lab_8 alone satisfies of C6.
Lab8NoModelNoRaise == lab = "lab8" => C6_NoModelNoRaise

\* C7: at every position i of a batch, a decoded text that is the prompt of record
\* i of that batch, "\n" and a continuation gives exactly the continuation; a
\* decoded text that does not start with that prompt and "\n" is returned as is.
C7_EchoedPromptStripped ==
    /\ \A k \in 1..Len(batches) : \A i \in 1..Len(batches[k]) :
          LET p == batches[k][i] + 1
          IN  p <= Len(predictions) =>
                 IsContinuation(predictions[p], generated[p], GetItem(dataset, batches[k][i])[1])
    /\ (last_call.op = "infer_sample" /\ last_call.value = "str") =>
          IsContinuation(last_call.text, last_call.decoded[1], last_call.sample[1])

C7_Witness ==
    /\ batch_size >= 2
    /\ Len(batches) >= 2
    /\ Len(predictions) = cursor
    /\ Len(predictions) >= 4
    /\ generated[3] = dataset[3].question \o <<NL>> \o Z
    /\ predictions[3] = Z
    /\ generated[4] = dataset[4].question \o Z
    /\ predictions[4] = generated[4]

\* C9: a tokenizer or generation failure on a batch ends infer_dataset with that
\* error: the batch is not skipped, no later batch is processed and no table is
\* returned; a returned table is complete.
C9_FailureAbortsInferDataset ==
    /\ failures > 0 =>
          /\ pc = "raised"
          /\ frame = NoFrame
          /\ failures = 1
          /\ Len(predictions) + Len(batches[Len(batches)]) = cursor
    /\ frame.built =>
          /\ failures = 0
          /\ Len(frame.predictions) = Len(dataset)
          /\ Len(frame.target) = Len(dataset)

C9_Witness ==
    /\ failures > 0
    /\ pc = "raised"
    /\ Len(predictions) > 0
    /\ cursor < Len(dataset)

----------------------------------------------------------------------------
(* TaskEvaluator.run (lab_8) *)

\* values of core_utils.llm.metrics.Metrics requested in the model
MetricNames == {"bleu", "rouge", "squad"}

Rouge == "rouge"

\* the keys of the dict metric.compute returns, per metric of the evaluate library:
\* rouge reports a family of sub-scores, bleu its score and details, squad
\* exact_match and f1 (no entry under its own name)
NativeKeys(m) ==
    CASE m = "rouge" -> {"rouge1", "rouge2", "rougeL", "rougeLsum"}
      [] m = "bleu"  -> {"bleu", "brevity_penalty"}
      [] m = "squad" -> {"exact_match", "f1"}

Scalars == {0, 1}

Reports(m) == [NativeKeys(m) -> Scalars]

Some(v) == [none |-> FALSE, v |-> v]
PyNone  == [none |-> TRUE, v |-> 0]

\* dict.get(key): None when the key is absent
Get(d, key) == IF key \in DOMAIN d THEN Some(d[key]) ELSE PyNone

\* d[key] = value
Put(d, key, value) == [k \in DOMAIN d \cup {key} |-> IF k = key THEN value ELSE d[k]]

\* as ScoreKey, without the branch for rouge
ScoreKeyOwnName(m) == m

\* the key read from the computed report: f'{name}L' for rouge, the name otherwise
ScoreKey(m) == IF m = Rouge THEN "rougeL" ELSE m

InitEval ==
    /\ lab = "lab8"
    /\ metrics \in SeqsUpTo(MetricNames, MaxMetrics)
    /\ epc = "idle"
    /\ mpos = 0
    /\ native = NoDict
    /\ scores = NoDict
    /\ PreIdle
    /\ InfIdle
    /\ SvcIdle

\* data = pd.read_csv(self._data_path); scores = {}
StartRun ==
    /\ epc = "idle"
    /\ epc' = "loop"
    /\ scores' = NoDict
    /\ UNCHANGED <<lab, svc_vars, pre_vars, inf_vars, metrics, mpos, native>>

\* pd.read_csv raises: the prediction file is missing or unreadable
ReadFails ==
    /\ epc = "idle"
    /\ epc' = "raised"
    /\ UNCHANGED <<lab, svc_vars, pre_vars, inf_vars, metrics, mpos, native, scores>>

\* one iteration of the loop over self._metrics
RunMetric ==
    /\ epc = "loop"
    /\ mpos < Len(metrics)
    /\ LET m == metrics[mpos + 1]
       IN  \E score \in Reports(m) :
              /\ native' = Put(native, m, score)
              /\ scores' = Put(scores, m, Get(score, ScoreKey(m)))
    /\ mpos' = mpos + 1
    /\ UNCHANGED <<lab, svc_vars, pre_vars, inf_vars, metrics, epc>>

\* load(...) or metric.compute(...) raises
MetricFails ==
    /\ epc = "loop"
    /\ mpos < Len(metrics)
    /\ epc' = "raised"
    /\ UNCHANGED <<lab, svc_vars, pre_vars, inf_vars, metrics, mpos, native, scores>>

\* return scores
FinishRun ==
    /\ epc = "loop"
    /\ mpos = Len(metrics)
    /\ epc' = "returned"
    /\ UNCHANGED <<lab, svc_vars, pre_vars, inf_vars, metrics, mpos, native, scores>>

NextEval == StartRun \/ ReadFails \/ RunMetric \/ MetricFails \/ FinishRun

SpecEval == InitEval /\ [][NextEval]_vars

----------------------------------------------------------------------------
(* Properties of the evaluation stage *)

----------------------------------------------------------------------------
(* The web service of lab_7: the handler of POST /infer *)

Bar == "|"

QueryChars == {"a", "b", Bar}

\* the texts a request can carry in Query.question
QueryTexts == SeqsUpTo(QueryChars, MaxQuery)

\* str.split('|'): the pieces between the separators, at least one piece
RECURSIVE Split(_, _)
Split(text, sep) ==
    IF \A i \in 1..Len(text) : text[i] # sep
    THEN <<text>>
    ELSE LET at == Min({i \in 1..Len(text) : text[i] = sep})
         IN  <<SubSeq(text, 1, at - 1)>> \o Split(SubSeq(text, at + 1, Len(text)), sep)

\* as SampleTuple, the split list handed on as it is
SampleTupleAsSplit(sample) == sample

\* sample_tuple: the only piece twice, or the first two pieces
SampleTuple(sample) ==
    IF Len(sample) = 1
    THEN <<sample[1], sample[1]>>
    ELSE <<sample[1], sample[2]>>

\* pipeline.get_config()['id2label'] of the classification model
Id2Label ==
    [k \in {<<"0">>, <<"1">>, <<"2">>} |->
        CASE k = <<"0">> -> "entailment"
          [] k = <<"1">> -> "neutral"
          [] k = <<"2">> -> "contradiction"]

\* labels_mapping.get(prediction): None for a prediction that is no key
LabelsGet(prediction) ==
    IF prediction.value = "str" /\ prediction.text \in DOMAIN Id2Label
    THEN [none |-> FALSE, v |-> Id2Label[prediction.text]]
    ELSE [none |-> TRUE, v |-> ""]

\* init_application(): the lab_7 pipeline with its model loaded, an empty dataset
InitService ==
    /\ lab = "lab7"
    /\ query \in QueryTexts
    /\ spc = "idle"
    /\ infer_calls = <<>>
    /\ response = NoDict
    /\ PreIdle
    /\ InfIdle
    /\ EvalIdle

\* the whole handler: split, build the tuple, call infer_sample, return the dict
Infer ==
    /\ spc = "idle"
    /\ LET sample == Split(query, Bar)
           sample_tuple == SampleTuple(sample)
       IN  \E prediction \in InferSampleOutcomes(lab, model_bound, sample_tuple) :
              /\ infer_calls' = Append(infer_calls, sample_tuple)
              /\ last_call' = prediction
              /\ response' = IF prediction.raised = "none"
                             THEN [k \in {"infer"} |-> LabelsGet(prediction)]
                             ELSE NoDict
    /\ spc' = "done"
    /\ UNCHANGED <<lab, pre_vars, eval_vars, query, model_bound, dataset, batch_size, pc,
                   cursor, batches, predictions, generated, frame, failures>>

NextService == Infer

SpecService == InitService /\ [][NextService]_vars

----------------------------------------------------------------------------
(* Properties of the service *)

BarFree(text) == \A i \in 1..Len(text) : text[i] # Bar

====
